---- MODULE Spec2Model ----
(***************************************************************************)
(* A model of stsh (src/stsh.cc): the read-eval-print loop, the pipeline   *)
(* launcher createJob, the builtins fg/bg/slay/halt/cont/jobs, the signal  *)
(* handlers sigChild and sigForward, together with the part of the kernel  *)
(* they talk to (child processes, process groups, wait statuses, the       *)
(* terminal's foreground process group).                                   *)
(*                                                                         *)
(* The main thread is cut at every point where stsh.cc lets a signal       *)
(* handler run (the file never calls sigprocmask, so that is between any   *)
(* two statements); statements whose order relative to a handler cannot be *)
(* observed are kept in one step.  sigChild is cut at each waitpid call.   *)
(*                                                                         *)
(* STSHJobList / STSHJob / STSHProcess are used by stsh.cc through their    *)
(* headers only; their operations follow the design document (JobTable,    *)
(* sections 3, 4.1 and 4.3).                                               *)
(*                                                                         *)
(* The module has two views of the program.  Spec (and FairSpec) is the    *)
(* job-control view: jobs, process groups, signals, the terminal.          *)
(* LaunchSpec is the descriptor view of createJob: pipes, redirections,    *)
(* the descriptors of the shell and of each child, and the way a child     *)
(* ends.  Each view leaves the variables of the other at their initial     *)
(* values.                                                                 *)
(***************************************************************************)
EXTENDS Integers, Naturals, Sequences, FiniteSets, TLC

\* ---------------------------------------------------------------- bounds
MaxProcs == 3      \* children forked over one run
MaxStages == 2     \* longest pipeline launched
MaxCmds == 3       \* command lines read over one run
MaxSigs == 1       \* SIGINT / SIGTSTP events from the terminal or a kill(1)
MaxForkFails == 1  \* calls of fork that fail over one run
MaxPipeStages == 4 \* longest pipeline of the descriptor view
MaxLaunches == 2   \* pipelines launched over one run of the descriptor view

\* ------------------------------------------------------------- constants
ShellPid == 100    \* getpid() of the shell, also its process group
FailPid == -1      \* what fork() returns when it fails

Pids == 1..MaxProcs
NoPid == 0

VARIABLES
  jobs,       \* joblist: job number -> [state, gid, procs]
  pc,         \* position of the main thread
  cur,        \* locals of the command being executed
  kstate,     \* kernel: per pid none/running/stopped/zombie/reaped
  pgid,       \* kernel: process group of each pid
  childSet,   \* kernel: the child has run its own setpgid
  leader,     \* kernel: the group the child's own setpgid asks for
  wstat,      \* kernel: wait status not yet collected by waitpid
  nextPid,    \* kernel: next pid fork hands out
  tty,        \* terminal: foreground process group of stdin
  sigchld,    \* a SIGCHLD is pending for the shell
  inHandler,  \* sigChild is running
  ncmds,      \* command lines read so far
  nsigs,      \* terminal signals generated so far
  last,       \* the last finished command and how it ended, until the next
  fwd,        \* the last signal sigForward handled and the job it chose
  nfails,     \* calls of fork that failed so far
  seen,       \* the wait statuses this run of sigChild has collected
  badArgs,    \* the last builtin line had arguments of an erroneous kind
  \* the descriptor view of createJob (second part of the module)
  lp,         \* the pipeline being launched: stages, redirections, programs
  lpc,        \* position of the shell in createJob
  fds,        \* the array int fds[(n-1)*2]
  shfd,       \* pipe endpoints open in the shell
  kid,        \* per stage: the child's descriptors, status, exit code
  npipes,     \* pipes created so far
  nlaunch     \* pipelines launched so far

fdview == <<lp, lpc, fds, shfd, kid, npipes, nlaunch>>

vars == <<jobs, pc, cur, kstate, pgid, childSet, leader, wstat, nextPid, tty,
          sigchld, inHandler, ncmds, nsigs, last, fwd, nfails, seen, badArgs,
          fdview>>

kernel == <<kstate, pgid, childSet, leader, wstat, nextPid>>

Idle == [cmd |-> "none", n |-> 0, bg |-> FALSE, i |-> 0, job |-> 0,
         pid0 |-> NoPid, pid |-> NoPid, gid |-> 0]
NoIndex == -1      \* slay/halt/cont were given no <index>
NoLast == [cmd |-> "none", how |-> "none", job |-> 0, idx |-> NoIndex]
NoFwd == [sig |-> "none", job |-> 0, running |-> FALSE, waiting |-> FALSE]

Max(S) == CHOOSE x \in S : \A y \in S : y <= x

\* ------------------------------------------------------------- job table
\* (STSHJobList, STSHJob, STSHProcess, after the design document)

NextJobNum(js) == IF DOMAIN js = {} THEN 1 ELSE Max(DOMAIN js) + 1

addJob(js, st) ==
  js @@ (NextJobNum(js) :> [state |-> st, gid |-> 0, procs |-> <<>>])

addProcess(js, num, pid) ==
  [js EXCEPT ![num].procs = Append(@, [pid |-> pid, state |-> "Running"]),
             ![num].gid = IF js[num].procs = <<>> THEN pid ELSE @]

containsJob(js, num) == num \in DOMAIN js

JobPids(j) == {j.procs[k].pid : k \in 1..Len(j.procs)}

containsProcess(js, pid) == \E num \in DOMAIN js : pid \in JobPids(js[num])

getJobWithProcess(js, pid) ==
  CHOOSE num \in DOMAIN js : pid \in JobPids(js[num])

ForegroundJobs(js) == {num \in DOMAIN js : js[num].state = "Foreground"}

hasForegroundJob(js) == ForegroundJobs(js) # {}

\* set_job_state: fails with AlreadyForeground if (I1) would be violated
setStateFails(js, num, st) ==
  st = "Foreground" /\ ForegroundJobs(js) \ {num} # {}

setState(js, num, st) == [js EXCEPT ![num].state = st]

setProcessState(js, num, pid, st) ==
  [js EXCEPT ![num].procs =
     [k \in 1..Len(@) |-> IF @[k].pid = pid THEN [@[k] EXCEPT !.state = st]
                                            ELSE @[k]]]

AllIn(j, S) == \A k \in 1..Len(j.procs) : j.procs[k].state \in S

\* synchronize: the job is removed when all its processes are Terminated; a
\* Foreground job none of whose processes is Running is demoted to Background
synchronize(js, num) ==
  IF AllIn(js[num], {"Terminated"})
    THEN [k \in DOMAIN js \ {num} |-> js[k]]
    ELSE IF js[num].state = "Foreground" /\ AllIn(js[num], {"Stopped", "Terminated"})
      THEN setState(js, num, "Background")
      ELSE js

\* updateJobList with the call of synchronize left out
updateJobList_noSync(js, pid, st) ==
  IF ~containsProcess(js, pid) THEN js
  ELSE setProcessState(js, getJobWithProcess(js, pid), pid, st)

\* updateJobList (stsh.cc)
updateJobList(js, pid, st) ==
  IF ~containsProcess(js, pid) THEN js
  ELSE LET num == getJobWithProcess(js, pid)
       IN synchronize(setProcessState(js, num, pid, st), num)

\* ---------------------------------------------------------------- kernel
Live == {"running", "stopped"}
Unreaped == {"running", "stopped", "zombie"}

GroupExists(ks, pg, g) == \E p \in Pids : ks[p] \in Unreaped /\ pg[p] = g

GroupMembers(g) == {p \in Pids : kstate[p] \in Live /\ pgid[p] = g}

\* the effect of signal sig on the set T of processes
Deliver(T, sig) ==
  LET hit == CASE sig = "SIGKILL" -> {p \in T : kstate[p] \in Live}
               [] sig = "SIGINT"  -> {p \in T : kstate[p] = "running"}
               [] sig \in {"SIGTSTP", "SIGSTOP"} -> {p \in T : kstate[p] = "running"}
               [] sig = "SIGCONT" -> {p \in T : kstate[p] = "stopped"}
      to  == CASE sig \in {"SIGKILL", "SIGINT"} -> "zombie"
               [] sig \in {"SIGTSTP", "SIGSTOP"} -> "stopped"
               [] sig = "SIGCONT" -> "running"
      ws  == CASE sig \in {"SIGKILL", "SIGINT"} -> "exited"
               [] sig \in {"SIGTSTP", "SIGSTOP"} -> "stopped"
               [] sig = "SIGCONT" -> "continued"
  IN /\ kstate' = [p \in Pids |-> IF p \in hit THEN to ELSE kstate[p]]
     /\ wstat' = [p \in Pids |-> IF p \in hit THEN ws ELSE wstat[p]]
     /\ sigchld' = (sigchld \/ hit # {})
     /\ UNCHANGED <<pgid, childSet, leader, nextPid>>

\* kill(-gid, sig); kill(-0, sig) is kill(0, sig): the caller's own group
KillGroup(gid, sig) ==
  Deliver(GroupMembers(IF gid = 0 THEN ShellPid ELSE gid), sig)

\* createJob has not been entered
NoLaunch ==
  /\ lp = [n |-> 0, input |-> "none", output |-> FALSE, bg |-> FALSE,
           missing |-> {}, base |-> 0]
  /\ lpc = "idle"
  /\ fds = <<>>
  /\ shfd = {}
  /\ kid = <<>>
  /\ npipes = 0
  /\ nlaunch = 0

Init ==
  /\ jobs = <<>>
  /\ pc = "prompt"
  /\ cur = Idle
  /\ kstate = [p \in Pids |-> "none"]
  /\ pgid = [p \in Pids |-> 0]
  /\ childSet = [p \in Pids |-> FALSE]
  /\ leader = [p \in Pids |-> NoPid]
  /\ wstat = [p \in Pids |-> "none"]
  /\ nextPid = 1
  /\ tty = ShellPid
  /\ sigchld = FALSE
  /\ inHandler = FALSE
  /\ ncmds = 0
  /\ nsigs = 0
  /\ last = NoLast
  /\ fwd = NoFwd
  /\ nfails = 0
  /\ seen = [p \in Pids |-> "none"]
  /\ badArgs = FALSE
  /\ NoLaunch

ShellAlive == pc \notin {"crashed", "exited", "spinning"}
MainRuns == ~inHandler /\ ShellAlive

\* back to readline in main's loop
ToPrompt(how) ==
  /\ pc' = "prompt"
  /\ last' = [cmd |-> cur.cmd, how |-> how, job |-> cur.job, idx |-> NoIndex]
  /\ cur' = Idle

\* ------------------------------------------------------------ main, REPL
\* main: readline returned a line naming a program (not a builtin)
readline_launch ==
  /\ MainRuns /\ pc = "prompt" /\ ncmds < MaxCmds
  /\ \E n \in 1..MaxStages, b \in BOOLEAN :
       /\ nextPid + n - 1 <= MaxProcs
       /\ cur' = [Idle EXCEPT !.cmd = "launch", !.n = n, !.bg = b]
  /\ pc' = "cj_addJob"
  /\ ncmds' = ncmds + 1
  /\ badArgs' = FALSE
  /\ last' = NoLast
  /\ UNCHANGED <<jobs, kernel, tty, sigchld, inHandler, nsigs, fwd>>
  /\ UNCHANGED <<nfails, seen, fdview>>

\* ---------------------------------------------------------- createJob
\* STSHJob& job = joblist.addJob(kForeground);
createJob_addJob ==
  /\ MainRuns /\ pc = "cj_addJob"
  /\ jobs' = addJob(jobs, "Foreground")
  /\ cur' = [cur EXCEPT !.job = NextJobNum(jobs)]
  /\ pc' = IF cur.bg THEN "cj_setBg" ELSE "cj_fork0"
  /\ UNCHANGED <<kernel, tty, sigchld, inHandler, ncmds, nsigs, last, fwd>>
  /\ UNCHANGED <<nfails, seen, badArgs, fdview>>

\* if (p.background) job.setState(kBackground);
createJob_setBackground ==
  /\ MainRuns /\ pc = "cj_setBg"
  /\ jobs' = setState(jobs, cur.job, "Background")
  /\ pc' = "cj_fork0"
  /\ UNCHANGED <<cur, kernel, tty, sigchld, inHandler, ncmds, nsigs, last, fwd>>
  /\ UNCHANGED <<nfails, seen, badArgs, fdview>>

\* fork() of stage cur.i: the child starts in the shell's process group; or
\* fork fails and returns -1, which createJob takes for a child's pid
\* (pid0 != 0)
createJob_fork ==
  /\ MainRuns /\ pc \in {"cj_fork0", "cj_forkNext"}
  /\ \/ /\ kstate' = [kstate EXCEPT ![nextPid] = "running"]
        /\ pgid' = [pgid EXCEPT ![nextPid] = ShellPid]
        /\ leader' = [leader EXCEPT ![nextPid] =
                        IF pc = "cj_fork0" THEN nextPid ELSE cur.pid0]
        /\ nextPid' = nextPid + 1
        /\ cur' = [cur EXCEPT !.pid = nextPid,
                              !.pid0 = IF pc = "cj_fork0" THEN nextPid ELSE @]
        /\ UNCHANGED nfails
     \/ /\ nfails < MaxForkFails
        /\ nfails' = nfails + 1
        /\ cur' = [cur EXCEPT !.pid = FailPid,
                              !.pid0 = IF pc = "cj_fork0" THEN FailPid ELSE @]
        /\ UNCHANGED <<kstate, pgid, leader, nextPid>>
  /\ pc' = IF pc = "cj_fork0" THEN "cj_record0" ELSE "cj_recordNext"
  /\ UNCHANGED <<jobs, childSet, wstat, tty, sigchld, inHandler, ncmds,
                 nsigs, last, fwd>>
  /\ UNCHANGED <<seen, badArgs, fdview>>

\* setpgid(pid, pgrp) called by the shell for its child pid
ParentSetpgid(pid, pgrp) ==
  IF pid \in Pids /\ kstate[pid] \in Unreaped /\ ~childSet[pid]
       /\ (pgrp = pid \/ GroupExists(kstate, pgid, pgrp))
    THEN [pgid EXCEPT ![pid] = pgrp]
    ELSE pgid

AfterRecord ==
  IF cur.i + 1 < cur.n THEN "cj_forkNext"
  ELSE IF cur.bg THEN "prompt" ELSE "wf_check"

\* setpgid(pid0, pid0); job.addProcess(STSHProcess(pid0, ...));
createJob_record0 ==
  /\ MainRuns /\ pc = "cj_record0"
  /\ pgid' = ParentSetpgid(cur.pid0, cur.pid0)
  /\ jobs' = addProcess(jobs, cur.job, cur.pid0)
  /\ IF cur.bg
       THEN IF AfterRecord = "prompt"
              THEN ToPrompt("returned")
              ELSE /\ pc' = AfterRecord
                   /\ cur' = [cur EXCEPT !.i = @ + 1]
                   /\ UNCHANGED last
       ELSE /\ pc' = "cj_tcsetpgrp"
            /\ UNCHANGED <<cur, last>>
  /\ UNCHANGED <<kstate, childSet, leader, wstat, nextPid, tty, sigchld,
                 inHandler, ncmds, nsigs, fwd>>
  /\ UNCHANGED <<nfails, seen, badArgs, fdview>>

\* tcsetpgrp(STDIN_FILENO, pid0); a failure throws to main's catch
createJob_tcsetpgrp ==
  /\ MainRuns /\ pc = "cj_tcsetpgrp"
  /\ IF GroupExists(kstate, pgid, cur.pid0)
       THEN /\ tty' = cur.pid0
            /\ pc' = AfterRecord
            /\ cur' = [cur EXCEPT !.i = @ + 1]
            /\ UNCHANGED last
       ELSE /\ ToPrompt("threw")
            /\ UNCHANGED tty
  /\ UNCHANGED <<jobs, kernel, sigchld, inHandler, ncmds, nsigs, fwd>>
  /\ UNCHANGED <<nfails, seen, badArgs, fdview>>

\* setpgid(pid_i, pid0); job.addProcess(STSHProcess(pid_i, ...)); job is a
\* reference into joblist: once synchronize has erased the job it dangles,
\* and the write through it either lands in freed memory or faults
createJob_recordNext ==
  /\ MainRuns /\ pc = "cj_recordNext"
  /\ pgid' = ParentSetpgid(cur.pid, cur.pid0)
  /\ \/ /\ containsJob(jobs, cur.job)
        /\ jobs' = addProcess(jobs, cur.job, cur.pid)
        /\ IF AfterRecord = "prompt"
             THEN ToPrompt("returned")
             ELSE /\ pc' = AfterRecord
                  /\ cur' = [cur EXCEPT !.i = @ + 1]
                  /\ UNCHANGED last
     \/ /\ ~containsJob(jobs, cur.job)
        /\ UNCHANGED jobs
        /\ IF AfterRecord = "prompt"
             THEN ToPrompt("returned")
             ELSE /\ pc' = AfterRecord
                  /\ cur' = [cur EXCEPT !.i = @ + 1]
                  /\ UNCHANGED last
     \/ /\ ~containsJob(jobs, cur.job)
        /\ pc' = "crashed"
        /\ UNCHANGED <<jobs, cur, last>>
  /\ UNCHANGED <<kstate, childSet, leader, wstat, nextPid, tty, sigchld,
                 inHandler, ncmds, nsigs, fwd>>
  /\ UNCHANGED <<nfails, seen, badArgs, fdview>>

\* ---------------------------------------------------------- waitForFg
\* while (joblist.hasForegroundJob())
waitForFg_check ==
  /\ MainRuns /\ pc = "wf_check"
  /\ IF hasForegroundJob(jobs)
       THEN pc' = "wf_call" /\ UNCHANGED <<cur, last>>
       ELSE ToPrompt("waited")
  /\ UNCHANGED <<jobs, kernel, tty, sigchld, inHandler, ncmds, nsigs, fwd>>
  /\ UNCHANGED <<nfails, seen, badArgs, fdview>>

\* sigsuspend(&mask) is entered; it returns after a handler has run
waitForFg_sigsuspend ==
  /\ MainRuns /\ pc = "wf_call"
  /\ pc' = "wf_suspended"
  /\ UNCHANGED <<jobs, cur, kernel, tty, sigchld, inHandler, ncmds, nsigs,
                 last, fwd>>
  /\ UNCHANGED <<nfails, seen, badArgs, fdview>>

\* ------------------------------------------------------------- builtins
\* p.commands[0].tokens: each token is absent (NULL), a decimal number or
\* some other word; the array is NULL-terminated
NullTok == [kind |-> "null", val |-> 0]
WordTok == [kind |-> "word", val |-> 0]
NumToks == {[kind |-> "num", val |-> k] : k \in -1..MaxProcs}
Tokens == {NullTok, WordTok} \cup NumToks
ArgLists ==
  {a \in [0..2 -> Tokens] :
     /\ \A k \in 0..1 : a[k] = NullTok => a[k + 1] = NullTok
     /\ a[2] \in {NullTok, WordTok}}

\* atoi(token): the number a numeric token spells, 0 for any other word
atoi(tok) == IF tok.kind = "num" THEN tok.val ELSE 0

\* the same with int t = 1: an absent token counts as 1
TokenValue_defaultOne(tok) == IF tok # NullTok THEN atoi(tok) ELSE 1

\* int t = 0; if (token != NULL) t = atoi(token);
TokenValue(tok) == IF tok # NullTok THEN atoi(tok) ELSE 0

\* the argument errors of fg/bg: no argument, a number that is not
\* positive, an argument too many, a number that names no job
FgBgArgsErroneous(js, args) ==
  \/ args[0] = NullTok
  \/ args[0].kind = "num" /\ args[0].val <= 0
  \/ args[1] # NullTok
  \/ args[0].kind = "num" /\ ~containsJob(js, args[0].val)

\* the argument errors of slay/halt/cont: no argument, a number that is not
\* positive, an argument too many, a pid the table does not know, a number
\* that names no job, an index outside the job's processes
SingleArgsErroneous(js, args) ==
  \/ args[0] = NullTok
  \/ args[0].kind = "num" /\ args[0].val <= 0
  \/ args[2] # NullTok
  \/ /\ args[0].kind = "num" /\ args[1] = NullTok
     /\ ~containsProcess(js, args[0].val)
  \/ /\ args[0].kind = "num" /\ args[1].kind = "num"
     /\ \/ ~containsJob(js, args[0].val)
        \/ args[1].val < 0
        \/ args[1].val >= Len(js[args[0].val].procs)

\* main: readline returned fg ... or bg ...; fgbgHandler checks the
\* arguments and looks the job up
fgbgHandler_getJob ==
  /\ MainRuns /\ pc = "prompt" /\ ncmds < MaxCmds
  /\ ncmds' = ncmds + 1
  /\ \E builtin \in {"fg", "bg"}, args \in ArgLists :
       LET token1 == args[1]
           t0 == TokenValue(args[0])
       IN /\ badArgs' = FgBgArgsErroneous(jobs, args)
          /\ IF t0 < 1 \/ token1 # NullTok \/ ~containsJob(jobs, t0)
               THEN /\ pc' = "prompt"
                    /\ last' = [NoLast EXCEPT !.cmd = builtin, !.how = "threw"]
                    /\ cur' = Idle
               ELSE /\ pc' = "fb_kill"
                    /\ cur' = [Idle EXCEPT !.cmd = builtin, !.job = t0,
                                           !.gid = jobs[t0].gid]
                    /\ last' = NoLast
  /\ UNCHANGED <<jobs, kernel, tty, sigchld, inHandler, nsigs, fwd>>
  /\ UNCHANGED <<nfails, seen, fdview>>

\* kill(-groupID, sig);
fgbgHandler_kill ==
  /\ MainRuns /\ pc = "fb_kill"
  /\ KillGroup(cur.gid, "SIGCONT")
  /\ pc' = "fb_setState"
  /\ UNCHANGED <<jobs, cur, tty, inHandler, ncmds, nsigs, last, fwd>>
  /\ UNCHANGED <<nfails, seen, badArgs, fdview>>

\* job.setState(kForeground); for bg the handler returns here
fgbgHandler_setState ==
  /\ MainRuns /\ pc = "fb_setState"
  /\ \/ /\ containsJob(jobs, cur.job)
        /\ IF setStateFails(jobs, cur.job, "Foreground")
             THEN ToPrompt("threw") /\ UNCHANGED jobs
             ELSE /\ jobs' = setState(jobs, cur.job, "Foreground")
                  /\ IF cur.cmd = "fg"
                       THEN pc' = "fb_tcsetpgrp" /\ UNCHANGED <<cur, last>>
                       ELSE ToPrompt("returned")
     \/ /\ ~containsJob(jobs, cur.job)
        /\ UNCHANGED jobs
        /\ IF cur.cmd = "fg"
             THEN pc' = "fb_tcsetpgrp" /\ UNCHANGED <<cur, last>>
             ELSE ToPrompt("returned")
     \/ /\ ~containsJob(jobs, cur.job)
        /\ pc' = "crashed"
        /\ UNCHANGED <<jobs, cur, last>>
  /\ UNCHANGED <<kernel, tty, sigchld, inHandler, ncmds, nsigs, fwd>>
  /\ UNCHANGED <<nfails, seen, badArgs, fdview>>

\* fg: tcsetpgrp(STDIN_FILENO, groupID), then waitForFg()
fgbgHandler_tcsetpgrp ==
  /\ MainRuns /\ pc = "fb_tcsetpgrp"
  /\ IF GroupExists(kstate, pgid, cur.gid)
       THEN /\ tty' = cur.gid
            /\ pc' = "wf_check"
            /\ UNCHANGED <<cur, last>>
       ELSE /\ ToPrompt("threw")
            /\ UNCHANGED tty
  /\ UNCHANGED <<jobs, kernel, sigchld, inHandler, ncmds, nsigs, fwd>>
  /\ UNCHANGED <<nfails, seen, badArgs, fdview>>

Signal(builtin) ==
  CASE builtin = "slay" -> "SIGKILL"
    [] builtin = "halt" -> "SIGSTOP"
    [] builtin = "cont" -> "SIGCONT"

\* kill(pid, sig): the process pid; kill(-1, sig) is every process the
\* caller may signal, itself excepted
KillTargets(pid) == IF pid = FailPid THEN Pids ELSE {pid}

\* slay/halt/cont <pid>, or <jobid> <index>
singleProcessHandler ==
  /\ MainRuns /\ pc = "prompt" /\ ncmds < MaxCmds
  /\ ncmds' = ncmds + 1
  /\ \E builtin \in {"slay", "halt", "cont"}, args \in ArgLists :
       LET token1 == args[1]
           token2 == args[2]
           t0 == TokenValue(args[0])
           t1 == TokenValue(args[1])
           threw == /\ UNCHANGED <<kernel, sigchld>>
                    /\ last' = [NoLast EXCEPT !.cmd = builtin, !.how = "threw"]
           sent(pid) == /\ Deliver(KillTargets(pid), Signal(builtin))
                        /\ last' = [cmd |-> builtin, how |-> "returned",
                                    job |-> t0,
                                    idx |-> IF token1 = NullTok THEN NoIndex
                                                                ELSE t1]
       IN /\ badArgs' = SingleArgsErroneous(jobs, args)
          /\ IF t0 < 1 \/ token2 # NullTok
               THEN threw
               ELSE IF token1 = NullTok
                 THEN IF containsProcess(jobs, t0) THEN sent(t0) ELSE threw
                 ELSE IF ~containsJob(jobs, t0)
                   THEN threw
                   ELSE IF t1 < 0 \/ t1 >= Len(jobs[t0].procs)
                     THEN threw
                     ELSE sent(jobs[t0].procs[t1 + 1].pid)
  /\ UNCHANGED <<jobs, pc, cur, tty, inHandler, nsigs, fwd>>
  /\ UNCHANGED <<nfails, seen, fdview>>

\* jobs: cout << joblist starts walking the table
jobs_begin ==
  /\ MainRuns /\ pc = "prompt" /\ ncmds < MaxCmds
  /\ ncmds' = ncmds + 1
  /\ pc' = "jobs_print"
  /\ cur' = [Idle EXCEPT !.cmd = "jobs"]
  /\ badArgs' = FALSE
  /\ last' = NoLast
  /\ UNCHANGED <<jobs, kernel, tty, sigchld, inHandler, nsigs, fwd>>
  /\ UNCHANGED <<nfails, seen, fdview>>

\* ... and finishes
jobs_end ==
  /\ MainRuns /\ pc = "jobs_print"
  /\ ToPrompt("returned")
  /\ UNCHANGED <<jobs, kernel, tty, sigchld, inHandler, ncmds, nsigs, fwd>>
  /\ UNCHANGED <<nfails, seen, badArgs, fdview>>

\* quit / exit: exit(0)
quit ==
  /\ MainRuns /\ pc = "prompt"
  /\ pc' = "exited"
  /\ UNCHANGED <<jobs, cur, kernel, tty, sigchld, inHandler, ncmds, nsigs,
                 last, fwd>>
  /\ UNCHANGED <<nfails, seen, badArgs, fdview>>

\* ------------------------------------------------------- signal handlers
\* a pending SIGCHLD is delivered: sigChild starts
sigChild_enter ==
  /\ ShellAlive /\ sigchld /\ ~inHandler
  /\ inHandler' = TRUE
  /\ sigchld' = FALSE
  /\ seen' = [p \in Pids |-> "none"]
  /\ UNCHANGED <<jobs, pc, cur, kernel, tty, ncmds, nsigs, last, fwd>>
  /\ UNCHANGED <<nfails, badArgs, fdview>>

\* one turn of the loop: waitpid(-1, &status, WNOHANG|WUNTRACED|WCONTINUED)
\* returns a child whose state changed
sigChild_waitpid ==
  /\ ShellAlive /\ inHandler
  /\ \E pid \in Pids :
       /\ wstat[pid] # "none"
       /\ wstat' = [wstat EXCEPT ![pid] = "none"]
       /\ seen' = [seen EXCEPT ![pid] = wstat[pid]]
       /\ CASE wstat[pid] = "exited" ->
                 /\ kstate' = [kstate EXCEPT ![pid] = "reaped"]
                 /\ jobs' = updateJobList(jobs, pid, "Terminated")
                 /\ tty' = ShellPid
            [] wstat[pid] = "stopped" ->
                 /\ jobs' = updateJobList(jobs, pid, "Stopped")
                 /\ tty' = ShellPid
                 /\ UNCHANGED kstate
            [] wstat[pid] = "continued" ->
                 /\ jobs' = updateJobList(jobs, pid, "Running")
                 /\ UNCHANGED <<kstate, tty>>
  /\ UNCHANGED <<pc, cur, pgid, childSet, leader, nextPid, sigchld,
                 inHandler, ncmds, nsigs, last, fwd>>
  /\ UNCHANGED <<nfails, badArgs, fdview>>

\* the loop left on the first waitpid result, whatever it is
NoChildChanged_firstCall(ws) == TRUE

\* waitpid(-1, ..., WNOHANG | ...) returns <= 0: no child has a state change
\* to report
NoChildChanged(ws) == \A pid \in Pids : ws[pid] = "none"

\* if (pid <= 0) break; the handler returns, and a sigsuspend that was
\* waiting returns with it
sigChild_return ==
  /\ ShellAlive /\ inHandler
  /\ NoChildChanged(wstat)
  /\ inHandler' = FALSE
  /\ seen' = [p \in Pids |-> "none"]
  /\ pc' = IF pc = "wf_suspended" THEN "wf_check" ELSE pc
  /\ UNCHANGED <<jobs, cur, kernel, tty, sigchld, ncmds, nsigs, last, fwd>>
  /\ UNCHANGED <<nfails, badArgs, fdview>>

\* SIGINT or SIGTSTP reaches the shell: sigForward.  A job that has no
\* process yet has group id 0, and kill(-0, sig) signals the shell's own
\* process group: the children still in it and the shell itself, whose
\* handler is then entered again on every return ("spinning").
sigForward ==
  /\ ShellAlive /\ nsigs < MaxSigs
  /\ nsigs' = nsigs + 1
  /\ \E sig \in {"SIGINT", "SIGTSTP"} :
       IF hasForegroundJob(jobs)
         THEN \E num \in ForegroundJobs(jobs) :
                /\ KillGroup(jobs[num].gid, sig)
                /\ fwd' = [sig |-> sig, job |-> num,
                           waiting |-> pc = "wf_suspended",
                           running |-> /\ jobs[num].procs # <<>>
                                       /\ JobPids(jobs[num]) \subseteq Pids
                                       /\ \A p \in JobPids(jobs[num]) :
                                            kstate[p] = "running"]
                /\ pc' = IF jobs[num].gid = 0 THEN "spinning"
                         ELSE IF pc = "wf_suspended" /\ ~inHandler
                           THEN "wf_check" ELSE pc
         ELSE /\ UNCHANGED <<kernel, sigchld, fwd>>
              /\ pc' = IF pc = "wf_suspended" /\ ~inHandler
                         THEN "wf_check" ELSE pc
  /\ UNCHANGED <<jobs, cur, tty, inHandler, ncmds, last>>
  /\ UNCHANGED <<nfails, seen, badArgs, fdview>>

\* ----------------------------------------------------- the environment
\* the terminal driver sends SIGINT / SIGTSTP to its foreground process
\* group when that is not the shell's
ttySignal ==
  /\ ShellAlive /\ nsigs < MaxSigs /\ tty # ShellPid
  /\ nsigs' = nsigs + 1
  /\ \E sig \in {"SIGINT", "SIGTSTP"} : KillGroup(tty, sig)
  /\ UNCHANGED <<jobs, pc, cur, tty, inHandler, ncmds, last, fwd>>
  /\ UNCHANGED <<nfails, seen, badArgs, fdview>>

\* child side of fork: setpgid(getpid(), pgrp) with pgrp its own pid for
\* stage 0 and pid0 for the later stages
childSetpgid ==
  \E pid \in Pids :
    /\ ShellAlive
    /\ kstate[pid] = "running" /\ ~childSet[pid]
    /\ childSet' = [childSet EXCEPT ![pid] = TRUE]
    /\ pgid' = IF leader[pid] = pid \/ GroupExists(kstate, pgid, leader[pid])
                 THEN [pgid EXCEPT ![pid] = leader[pid]] ELSE pgid
    /\ UNCHANGED <<jobs, pc, cur, kstate, leader, wstat, nextPid, tty,
                   sigchld, inHandler, ncmds, nsigs, last, fwd>>
    /\ UNCHANGED <<nfails, seen, badArgs, fdview>>

\* a child terminates: its program ends, or execvp failed and the child
\* left through main's catch
childExit ==
  \E pid \in Pids :
    /\ ShellAlive
    /\ kstate[pid] = "running" /\ childSet[pid]
    /\ kstate' = [kstate EXCEPT ![pid] = "zombie"]
    /\ wstat' = [wstat EXCEPT ![pid] = "exited"]
    /\ sigchld' = TRUE
    /\ UNCHANGED <<jobs, pc, cur, pgid, childSet, leader, nextPid, tty,
                   inHandler, ncmds, nsigs, last, fwd>>
    /\ UNCHANGED <<nfails, seen, badArgs, fdview>>

Next ==
  \/ readline_launch
  \/ createJob_addJob
  \/ createJob_setBackground
  \/ createJob_fork
  \/ createJob_record0
  \/ createJob_tcsetpgrp
  \/ createJob_recordNext
  \/ waitForFg_check
  \/ waitForFg_sigsuspend
  \/ fgbgHandler_getJob
  \/ fgbgHandler_kill
  \/ fgbgHandler_setState
  \/ fgbgHandler_tcsetpgrp
  \/ singleProcessHandler
  \/ jobs_begin
  \/ jobs_end
  \/ quit
  \/ sigChild_enter
  \/ sigChild_waitpid
  \/ sigChild_return
  \/ sigForward
  \/ ttySignal
  \/ childSetpgid
  \/ childExit

Spec == Init /\ [][Next]_vars

\* the steps of the main thread between two prompts
MainStep ==
  \/ createJob_addJob \/ createJob_setBackground \/ createJob_fork
  \/ createJob_record0 \/ createJob_tcsetpgrp \/ createJob_recordNext
  \/ waitForFg_check \/ waitForFg_sigsuspend
  \/ fgbgHandler_kill \/ fgbgHandler_setState \/ fgbgHandler_tcsetpgrp
  \/ jobs_end

\* the steps of sigChild
HandlerStep == sigChild_enter \/ sigChild_waitpid \/ sigChild_return

\* Fair scheduling: the shell's main thread runs, a pending SIGCHLD is
\* delivered and its handler runs to the end, every child is scheduled and
\* every running child terminates.  What the user types or sends is not
\* under any fairness.
FairSpec ==
  /\ Spec
  /\ WF_vars(MainStep)
  /\ WF_vars(HandlerStep)
  /\ WF_vars(childSetpgid)
  /\ WF_vars(childExit)

\* ======================================================================
\* The descriptor view of createJob: the pipes it creates, the descriptors
\* the shell and each child hold, and how each child ends.  No statement of
\* stsh.cc reads a descriptor to decide about jobs, process groups or
\* signals, so this view runs on its own variables; of the job-control
\* view it keeps the one event that changes the path through createJob, the
\* failing tcsetpgrp of a foreground launch.
\* ======================================================================
jobview == <<jobs, pc, cur, kstate, pgid, childSet, leader, wstat, nextPid,
             tty, sigchld, inHandler, ncmds, nsigs, last, fwd, nfails, seen,
             badArgs>>

\* what a descriptor refers to: an end of pipe number pipe >= 1, or (pipe 0)
\* the shell's own stdin / stdout, the file of a redirection, or nothing
\* (an uninitialised int, or the -1 of a failed open)
ShellIn == [pipe |-> 0, end |-> "stdin", cloexec |-> FALSE]
ShellOut == [pipe |-> 0, end |-> "stdout", cloexec |-> FALSE]
InFile == [pipe |-> 0, end |-> "input", cloexec |-> FALSE]
OutFile == [pipe |-> 0, end |-> "output", cloexec |-> FALSE]
Junk == [pipe |-> 0, end |-> "junk", cloexec |-> FALSE]

\* pipe2(.., O_CLOEXEC): the two ends of a new pipe, read end first
PipeEnds(k) == <<[pipe |-> k, end |-> "r", cloexec |-> TRUE],
                 [pipe |-> k, end |-> "w", cloexec |-> TRUE]>>

\* fds[k], k counted from 0 as in the code
FdAt(a, k) == IF k + 1 \in DOMAIN a THEN a[k + 1] ELSE Junk

Pipelines ==
  {p \in [n : 1..MaxPipeStages, input : {"none", "file", "missing"},
          output : BOOLEAN, bg : BOOLEAN,
          missing : SUBSET (0..(MaxPipeStages - 1)), base : {npipes}] :
     p.missing \subseteq 0..(p.n - 1)}

NoKid == [status |-> "none", in |-> ShellIn, out |-> ShellOut, held |-> {},
          fds |-> <<>>, code |-> 0, err |-> "none"]

\* main: a pipeline that is no builtin; createJob is entered, int
\* fds[(n-1)*2] is an array of (n-1)*2 ints nobody has written
createJob_enter ==
  /\ lpc = "idle" /\ nlaunch < MaxLaunches
  /\ nlaunch' = nlaunch + 1
  /\ \E p \in Pipelines :
       /\ lp' = p
       /\ fds' = [k \in 1..((p.n - 1) * 2) |-> Junk]
       /\ kid' = [i \in 0..(p.n - 1) |-> NoKid]
  /\ lpc' = "pipe2"
  /\ UNCHANGED <<shfd, npipes, jobview>>

\* pipe2(fds, O_CLOEXEC): the pipe is created and its two descriptors are
\* written to fds[0], fds[1].  With n = 1 the array has no element and the
\* two ints are written past it: the write lands in memory nothing reads
\* again, or in memory the shell needs
createJob_pipe2 ==
  /\ lpc = "pipe2"
  /\ npipes' = npipes + 1
  /\ shfd' = shfd \cup {PipeEnds(npipes + 1)[1], PipeEnds(npipes + 1)[2]}
  /\ \/ /\ lp.n > 1
        /\ fds' = [fds EXCEPT ![1] = PipeEnds(npipes + 1)[1],
                              ![2] = PipeEnds(npipes + 1)[2]]
        /\ lpc' = "forkFirst"
     \/ /\ lp.n = 1
        /\ UNCHANGED fds
        /\ lpc' \in {"forkFirst", "crashed"}
  /\ UNCHANGED <<lp, kid, nlaunch, jobview>>

\* fork(): the child starts with a copy of the shell's descriptors and of fds
Forked == [NoKid EXCEPT !.status = "forked", !.held = shfd, !.fds = fds]

\* pid0 = fork(); the parent goes on after the handoff of the terminal, or
\* (foreground) throws when tcsetpgrp fails and leaves createJob
createJob_forkFirst ==
  /\ lpc = "forkFirst"
  /\ kid' = [kid EXCEPT ![0] = Forked]
  /\ \/ lpc' = IF lp.n > 2 THEN "pipe2Middle"
               ELSE IF lp.n > 1 THEN "forkLast" ELSE "closeAll"
     \/ ~lp.bg /\ lpc' = "idle"
  /\ UNCHANGED <<lp, fds, shfd, npipes, nlaunch, jobview>>

\* the stage the loop over the middle processes is at
MiddleStage == CHOOSE i \in 1..(lp.n - 2) : kid[i].status = "none"
                                             /\ \A j \in 1..(i - 1) : kid[j].status # "none"

\* pipe2(fds + (i*2), O_CLOEXEC);
createJob_pipe2Middle ==
  /\ lpc = "pipe2Middle"
  /\ npipes' = npipes + 1
  /\ shfd' = shfd \cup {PipeEnds(npipes + 1)[1], PipeEnds(npipes + 1)[2]}
  /\ fds' = [fds EXCEPT ![2 * MiddleStage + 1] = PipeEnds(npipes + 1)[1],
                        ![2 * MiddleStage + 2] = PipeEnds(npipes + 1)[2]]
  /\ lpc' = "forkMiddle"
  /\ UNCHANGED <<lp, kid, nlaunch, jobview>>

\* pid_i = fork();
createJob_forkMiddle ==
  /\ lpc = "forkMiddle"
  /\ kid' = [kid EXCEPT ![MiddleStage] = Forked]
  /\ lpc' = IF MiddleStage + 1 < lp.n - 1 THEN "pipe2Middle" ELSE "forkLast"
  /\ UNCHANGED <<lp, fds, shfd, npipes, nlaunch, jobview>>

\* pidl = fork();
createJob_forkLast ==
  /\ lpc = "forkLast"
  /\ kid' = [kid EXCEPT ![lp.n - 1] = Forked]
  /\ lpc' = "closeAll"
  /\ UNCHANGED <<lp, fds, shfd, npipes, nlaunch, jobview>>

\* for (i = 0; i < (n-1)*2; i++) close(fds[i]);
createJob_closeAll ==
  /\ lpc = "closeAll"
  /\ shfd' = shfd \ {FdAt(fds, k) : k \in 0..((lp.n - 1) * 2 - 1)}
  /\ lpc' = "forked"
  /\ UNCHANGED <<lp, fds, kid, npipes, nlaunch, jobview>>

\* createJob returns (after waitForFg for a foreground pipeline)
createJob_return ==
  /\ lpc = "forked"
  /\ lpc' = "idle"
  /\ UNCHANGED <<lp, fds, shfd, kid, npipes, nlaunch, jobview>>

\* ------------------------------------------------------ the child's side
\* dup2(fd, STDIN_FILENO) / dup2(fd, STDOUT_FILENO): fails, changing
\* nothing, when fd is no open descriptor of the caller
dup2(c, fd, std) ==
  IF fd \in c.held
    THEN IF std = "in" THEN [c EXCEPT !.in = [fd EXCEPT !.cloexec = FALSE]]
                       ELSE [c EXCEPT !.out = [fd EXCEPT !.cloexec = FALSE]]
    ELSE c

\* close(fd)
close(c, fd) == [c EXCEPT !.held = @ \ {fd}]

\* open(path, ...): a new descriptor for the file, or -1
open(c, file, ok) == IF ok THEN [c EXCEPT !.held = @ \cup {file}] ELSE c

\* execvp succeeded: the program runs with the descriptors that are not
\* close-on-exec
execvp(c) == [c EXCEPT !.status = "exec", !.held = {e \in @ : ~e.cloexec}]

\* the code exit is called with in main's catch
CatchExitCode == 0

\* execvp returned: throw STSHException(command + ": Command not found."),
\* caught in main, which prints e.what() and, in a child, calls exit(0)
ThrowNotFound(c) ==
  [c EXCEPT !.status = "exited", !.held = {}, !.code = CatchExitCode,
            !.err = "Command not found."]

\* if (!p.output.empty()) { fdout = open(...); dup2(fdout, STDOUT_FILENO);
\* close(fdout); }
RedirectOutput(c) ==
  IF lp.output THEN close(dup2(open(c, OutFile, TRUE), OutFile, "out"), OutFile)
               ELSE c

\* the child of the first fork, from setpgid to execvp or exit
ChildFirst(c) ==
  LET fdin == IF lp.input = "file" THEN InFile ELSE Junk
      c1 == IF lp.input # "none"
              THEN close(dup2(open(c, InFile, lp.input = "file"), fdin, "in"),
                         fdin)
              ELSE c
      c2 == IF lp.n = 1 THEN RedirectOutput(c1)
            ELSE close(dup2(c1, FdAt(c.fds, 1), "out"), FdAt(c.fds, 0))
  IN IF 0 \notin lp.missing THEN execvp(c2)
     ELSE ThrowNotFound(IF lp.n > 1 THEN close(c2, FdAt(c.fds, 1)) ELSE c2)

\* the child of a fork of the middle loop, stage i
ChildMiddle(c, i) ==
  LET c1 == dup2(c, FdAt(c.fds, 2 * i + 1), "out")
      c2 == dup2(c1, FdAt(c.fds, 2 * (i - 1)), "in")
  IN IF i \notin lp.missing THEN execvp(c2) ELSE ThrowNotFound(c2)

\* the child of the last fork
ChildLast(c) ==
  LET c1 == dup2(c, FdAt(c.fds, 2 * lp.n - 4), "in")
      c2 == RedirectOutput(c1)
      c3 == close(c2, FdAt(c.fds, (lp.n - 2) * 2 + 1))
  IN IF (lp.n - 1) \notin lp.missing THEN execvp(c3)
     ELSE ThrowNotFound(close(c3, FdAt(c.fds, (lp.n - 2) * 2)))

\* a forked child runs up to its execvp, or to its exit
child_run ==
  \E i \in DOMAIN kid :
    /\ lpc # "crashed"
    /\ kid[i].status = "forked"
    /\ kid' = [kid EXCEPT ![i] = IF i = 0 THEN ChildFirst(@)
                                 ELSE IF i < lp.n - 1 THEN ChildMiddle(@, i)
                                 ELSE ChildLast(@)]
    /\ UNCHANGED <<lp, lpc, fds, shfd, npipes, nlaunch, jobview>>

LaunchNext ==
  \/ createJob_enter
  \/ createJob_pipe2
  \/ createJob_forkFirst
  \/ createJob_pipe2Middle
  \/ createJob_forkMiddle
  \/ createJob_forkLast
  \/ createJob_closeAll
  \/ createJob_return
  \/ child_run

LaunchSpec == Init /\ [][LaunchNext]_vars

\* ======================================================================
\* Properties
\* ======================================================================
WfPcs == {"wf_check", "wf_call", "wf_suspended"}
\* the launcher has added the job and has not yet appended its last process
MidLaunch ==
  \/ pc \in {"cj_setBg", "cj_fork0", "cj_record0", "cj_forkNext",
              "cj_recordNext"}
  \/ pc = "cj_tcsetpgrp" /\ cur.n > 1
NoLiveChild == \A p \in Pids : kstate[p] \notin Live

\* C1 (foreground uniqueness): whenever the REPL is back at the prompt, at
\* most one job of the table has state Foreground.
C1_ForegroundUnique ==
  pc = "prompt" => Cardinality(ForegroundJobs(jobs)) <= 1

\* C2 (terminal ownership): in every reachable state in which no job is
\* Foreground, the terminal's foreground process group is the shell's.
C2_TerminalOwnedByShell ==
  ~hasForegroundJob(jobs) => tty = ShellPid

\* C3 (launch blocking contract): a background launch never enters
\* waitForFg, and a foreground launch comes back to the prompt only in a
\* state in which no job is Foreground.
C3_LaunchBlocking ==
  [][/\ (cur.cmd = "launch" /\ cur.bg) => pc' \notin WfPcs
     /\ (cur.cmd = "launch" /\ ~cur.bg /\ pc # "prompt" /\ pc' = "prompt")
          => ~hasForegroundJob(jobs')]_vars

\* C4 (foreground completion): under fair scheduling, when no terminal
\* signal is sent and every child eventually terminates, a foreground launch
\* always leads back to the prompt.
C4_ForegroundCompletes ==
  ([](nsigs = 0) /\ <>[]NoLiveChild)
    => []((cur.cmd = "launch" /\ ~cur.bg) => <>(pc = "prompt"))

\* C5 (bg): when bg <num> on an existing job returns to the prompt, the
\* job's state is Background.
C5_BgLeavesBackground ==
  [][(cur.cmd = "bg" /\ pc = "fb_setState" /\ pc' = "prompt"
        /\ containsJob(jobs', cur.job))
       => jobs'[cur.job].state = "Background"]_vars

\* C6 (fg): fg <num> on an existing job sends SIGCONT, then sets the job
\* Foreground, then hands over the terminal, then waits; the REPL is back at
\* the prompt only when no job is Foreground.
C6_FgWaitsForForeground ==
  [][/\ (cur.cmd = "fg" /\ pc = "fb_kill") => pc' \in {"fb_kill", "fb_setState"}
     /\ (cur.cmd = "fg" /\ pc = "fb_setState" /\ pc' = "fb_tcsetpgrp"
           /\ containsJob(jobs', cur.job))
          => jobs'[cur.job].state = "Foreground"
     /\ (cur.cmd = "fg" /\ pc = "fb_tcsetpgrp" /\ pc' \in WfPcs)
          => tty' = cur.gid
     /\ (cur.cmd = "fg" /\ pc # "prompt" /\ pc' = "prompt")
          => ~hasForegroundJob(jobs')]_vars

\* C7 (stop of the foreground job): once SIGTSTP has reached the shell
\* while it waits for a Foreground job whose processes all run, eventually
\* the REPL is at the prompt with every process of that job stopped, the job
\* Background and still in the table, and the terminal owned by the shell.
C7_TstpForwarded ==
  fwd.sig = "SIGTSTP" /\ fwd.running /\ fwd.waiting

C7_StoppedAtPrompt ==
  /\ pc = "prompt" /\ tty = ShellPid
  /\ containsJob(jobs, fwd.job)
  /\ jobs[fwd.job].state = "Background"
  /\ JobPids(jobs[fwd.job]) \subseteq Pids
  /\ \A p \in JobPids(jobs[fwd.job]) : kstate[p] = "stopped"

C7_StopLeadsToPrompt ==
  (<>C7_TstpForwarded) => <>(C7_TstpForwarded /\ C7_StoppedAtPrompt)

\* C8 (group cohesion): for every job of the table, gid is the pid of
\* processes[0] and every live process of the job is in process group gid.
C8_GroupCohesion ==
  \A num \in DOMAIN jobs :
    /\ jobs[num].procs # <<>> => jobs[num].gid = jobs[num].procs[1].pid
    /\ \A p \in JobPids(jobs[num]) \cap Pids :
         kstate[p] \in Live => pgid[p] = jobs[num].gid

C10_HandlerMasked ==
  ~(inHandler /\ (MidLaunch \/ pc = "jobs_print"))

\* C11 (exec failure): every child that left because its execvp returned
\* has written "Command not found." and has a nonzero exit code, whatever
\* its stage.
C11_ExecFailureNonzero ==
  \A i \in DOMAIN kid :
    kid[i].status = "exited"
      => kid[i].err = "Command not found." /\ kid[i].code # 0

\* C12 (builtin errors): when fg, bg, slay, halt or cont is given no
\* argument, a non-positive number, an argument too many, an unknown job
\* number, an unknown pid or an index out of range, the command throws (the
\* dispatcher reports it), the REPL is back at the prompt, and no process
\* state, wait status, pending SIGCHLD, job or terminal owner has changed.
C12_BuiltinErrorsHarmless ==
  [][(ncmds' = ncmds + 1 /\ badArgs')
       => /\ pc' = "prompt"
          /\ last'.how = "threw"
          /\ UNCHANGED <<jobs, kernel, sigchld, tty>>]_vars

\* C12 witness: an erroneous slay, halt or cont has been reported while the
\* table holds a job and a child of the shell is running.
C12_Witness ==
  /\ pc = "prompt" /\ badArgs
  /\ last.how = "threw" /\ last.cmd \in {"slay", "halt", "cont"}
  /\ jobs # <<>>
  /\ \E p \in Pids : kstate[p] = "running"

\* C13 (target selection): when slay/halt/cont sends its signal, the one
\* argument form was given a pid of the table and the two argument form a
\* job number and an index into its processes, and every process the signal
\* reaches is that pid, respectively processes[index] of that job.
C13_TargetSelection ==
  [][(ncmds' = ncmds + 1 /\ last'.cmd \in {"slay", "halt", "cont"}
        /\ last'.how = "returned")
       => LET reached == {p \in Pids : kstate'[p] # kstate[p]}
          IN IF last'.idx = NoIndex
               THEN /\ containsProcess(jobs, last'.job)
                    /\ reached \subseteq {last'.job}
               ELSE /\ containsJob(jobs, last'.job)
                    /\ last'.idx + 1 \in DOMAIN jobs[last'.job].procs
                    /\ reached \subseteq
                         {jobs[last'.job].procs[last'.idx + 1].pid}]_vars

\* C14 (fork failure): whenever the REPL is at the prompt, no job of the
\* table is empty and no job records a process that was never spawned.
C14_NoOrphanJob ==
  pc = "prompt" =>
    \A num \in DOMAIN jobs :
      /\ jobs[num].procs # <<>>
      /\ FailPid \notin JobPids(jobs[num])

\* C15 (missing input file): when the input file of the pipeline cannot be
\* opened, the child of stage 0 never runs the program, and if it has exited
\* its exit code is nonzero.
C15_MissingInputNoExec ==
  (lpc # "idle" /\ lp.input = "missing")
    => /\ kid[0].status # "exec"
       /\ kid[0].status = "exited" => kid[0].code # 0

\* pipe number k (from 0) of the pipeline being launched
LaunchPipe(k) == lp.base + k + 1

\* C16 (pipe wiring): a stage that has reached its program reads from the
\* input file (stage 0, if the pipeline names one), the shell's stdin (stage
\* 0 otherwise) or the read end of the pipe before it, writes to the write
\* end of the pipe after it, or (last stage) to the output file if the
\* pipeline names one and the shell's stdout otherwise, and holds no other
\* descriptor of a pipe.
C16_PipeWiring ==
  \A i \in DOMAIN kid :
    kid[i].status = "exec"
      => /\ kid[i].in =
              IF i > 0 THEN [PipeEnds(LaunchPipe(i - 1))[1] EXCEPT !.cloexec = FALSE]
              ELSE IF lp.input # "none" THEN InFile ELSE ShellIn
         /\ kid[i].out =
              IF i < lp.n - 1 THEN [PipeEnds(LaunchPipe(i))[2] EXCEPT !.cloexec = FALSE]
              ELSE IF lp.output THEN OutFile ELSE ShellOut
         /\ kid[i].held = {}

\* C17 (pipe endpoints in the shell): when createJob has forked every stage
\* of a pipeline of n stages and has run its close loop, it has created n-1
\* pipes for this pipeline and the shell holds no descriptor of any pipe,
\* of this launch or of an earlier one.
C17_NoPipeEndLeft ==
  lpc = "forked" => (npipes - lp.base = lp.n - 1 /\ shfd = {})

\* C18 (terminal-signal forwarding): when sigForward runs and no job is
\* Foreground, no process is signalled and the table is unchanged; when it
\* runs right after a background launch or a bg has returned, no process of
\* that job is signalled.
C18_ForwardSparesBackground ==
  [][sigForward
       => /\ ~hasForegroundJob(jobs) => UNCHANGED <<jobs, kernel, sigchld>>
          /\ (/\ pc = "prompt" /\ last.how = "returned"
              /\ last.cmd \in {"launch", "bg"}
              /\ containsJob(jobs, last.job))
               => \A p \in JobPids(jobs[last.job]) \cap Pids :
                    kstate'[p] = kstate[p]]_vars

\* the state the table records for pid
RecordedState(js, pid) ==
  LET j == js[getJobWithProcess(js, pid)]
  IN j.procs[CHOOSE k \in 1..Len(j.procs) : j.procs[k].pid = pid].state

\* C19 (SIGCHLD draining): when sigChild returns, no process of the table
\* has a state change left to collect, and every process of the table whose
\* status this run collected is recorded with the state of its last status.
C19_Drained ==
  [][(inHandler /\ ~inHandler')
       => \A pid \in Pids :
            containsProcess(jobs, pid)
              => /\ wstat[pid] = "none"
                 /\ seen[pid] = "exited"
                      => RecordedState(jobs, pid) = "Terminated"
                 /\ seen[pid] = "stopped"
                      => RecordedState(jobs, pid) = "Stopped"
                 /\ seen[pid] = "continued"
                      => RecordedState(jobs, pid) = "Running"]_vars

\* C19 witness: one run of sigChild has collected the statuses of two
\* processes of the table and has nothing left to collect.
C19_Witness ==
  /\ inHandler /\ NoChildChanged(wstat)
  /\ Cardinality({pid \in Pids : seen[pid] # "none"
                                   /\ containsProcess(jobs, pid)}) >= 2

\* the job has a process that runs and that the table records as Running
HasRunning(js, ks, num) ==
  \E k \in 1..Len(js[num].procs) :
    /\ js[num].procs[k].state = "Running"
    /\ js[num].procs[k].pid \in Pids
    /\ ks[js[num].procs[k].pid] = "running"

\* C20 (terminal kept): while sigChild runs, if a job is Foreground, has a
\* Running process and owns the terminal before a step, and is Foreground
\* with a Running process after it, the step leaves the terminal's
\* foreground process group unchanged.
C20_TerminalKept ==
  [][(/\ inHandler /\ inHandler'
      /\ \E num \in ForegroundJobs(jobs) \cap ForegroundJobs(jobs') :
           /\ tty = jobs[num].gid
           /\ HasRunning(jobs, kstate, num)
           /\ HasRunning(jobs', kstate', num))
       => tty' = tty]_vars

====
